---- MODULE Spec2Model ----
(***************************************************************************)
(* Model of p2p_python/connectionrelay.py: the two command handlers        *)
(* MediatorCmd.thread and AskSrudpCmd.thread of one node, run by           *)
(* concurrently scheduled handler threads over the node's shared peer      *)
(* registry (p2p.peers) and socket pool (p2p.pool).                        *)
(*                                                                         *)
(* Each handler is cut into steps at the points where it reads or writes   *)
(* shared state, calls res_fnc, or blocks; a step is one action.           *)
(* Collaborators of other modules (PeerInfo, FormalAddr, Peer, Sock,       *)
(* Peer2Peer) are modelled from their documented contracts.                *)
(***************************************************************************)
EXTENDS Integers, Sequences, FiniteSets, TLC

(***************************************************************************)
(* Bounds                                                                  *)
(***************************************************************************)
\* handler executions dispatched in one behaviour (each creates at most one socket)
MaxRuns == 2

\* handler threads that may be running at the same time
Threads == {1, 2}

(***************************************************************************)
(* Values                                                                  *)
(***************************************************************************)
\* F applied to the value of v
With(v, F(_)) == CHOOSE r \in { F(x) : x \in {v} } : TRUE

NoneV == <<>>
Some(v) == <<v>>
IsNone(o) == o = <<>>
The(o) == o[1]

\* random.randint(1024, 65535): the two ends of the range
RandPortLo == 1024
RandPortHi == 65535
\* the values the random choice is sampled at: the two ends of the range
RandPorts == {RandPortLo, RandPortHi}

Host(v, ip) == [version |-> v, ip |-> ip]
is_loopback(h) == (h.version = 4 /\ h.ip = 127) \/ (h.version = 6 /\ h.ip = 1)
FormalAddr(h, p) == [host |-> h, port |-> p]
PeerInfo(k, as) == [public_key |-> k, addresses |-> as]

\* p2p.my_info, this node's identity, as configured: advertising two IPv4 addresses and
\* no IPv6 one, or an IPv6 address between the two IPv4 ones
MyInfoV4 == PeerInfo(9, << FormalAddr(Host(4, 10), 2000), FormalAddr(Host(4, 11), 2001) >>)
MyInfoDual ==
    PeerInfo(9, << FormalAddr(Host(4, 10), 2000), FormalAddr(Host(6, 40), 2002),
                   FormalAddr(Host(4, 11), 2001) >>)
MyInfos == {MyInfoV4, MyInfoDual}

\* public keys: 1 and 2 are the keys of registered peers with a validated socket, 4 is
\* the key of a registered peer whose socket is not validated, 3 is no registered peer's
Keys == {1, 2, 3, 4}

(***************************************************************************)
(* Wire format.  A buffer is a sequence of bytes; a cursor is the index of *)
(* the next unread byte (io.tell() + 1).                                   *)
(***************************************************************************)
Byte == 0..255
KeyLen == 2

\* VerifyingKey.to_string(): fixed-length key bytes with a validity relation
KeyBytes(k) == << k, 255 - k >>
\* VerifyingKey.from_string(): NoneV stands for the raised error
KeyFromString(bs) ==
    IF Len(bs) = KeyLen /\ bs[2] = 255 - bs[1] THEN Some(bs[1]) ELSE NoneV

\* n.to_bytes(4, "big") and int.from_bytes(bs, "big")
U32Bytes(n) == << (n \div 16777216) % 256, (n \div 65536) % 256, (n \div 256) % 256, n % 256 >>
IntFromBytes(bs) ==
    LET value[i \in 0..Len(bs)] == IF i = 0 THEN 0 ELSE 256 * value[i - 1] + bs[i]
    IN  value[Len(bs)]

\* io.read(n): the next n bytes, fewer at the end of the buffer
IoRead(b, pos, n) ==
    LET last == IF pos + n - 1 <= Len(b) THEN pos + n - 1 ELSE Len(b)
    IN  [bytes |-> SubSeq(b, pos, last), pos |-> last + 1]

Fail == [ok |-> FALSE]
Parsed(v, pos) == [ok |-> TRUE, val |-> v, pos |-> pos]

\* FormalAddr.to_bytes / FormalAddr.from_bytes
AddrToBytes(a) == << a.host.version, a.host.ip, a.port \div 256, a.port % 256 >>
AddrFromBytes(b, pos) ==
    IF pos + 3 > Len(b) THEN Fail
    ELSE IF b[pos] \notin {4, 6} THEN Fail
    ELSE Parsed(FormalAddr(Host(b[pos], b[pos + 1]), 256 * b[pos + 2] + b[pos + 3]), pos + 4)

RECURSIVE AddrsToBytes(_)
AddrsToBytes(as) ==
    IF as = <<>> THEN <<>> ELSE AddrToBytes(Head(as)) \o AddrsToBytes(Tail(as))

RECURSIVE AddrsFromBytes(_, _, _)
AddrsFromBytes(b, pos, n) ==
    IF n = 0 THEN Parsed(<<>>, pos)
    ELSE With(AddrFromBytes(b, pos), LAMBDA a :
             IF ~a.ok THEN Fail
             ELSE With(AddrsFromBytes(b, a.pos, n - 1), LAMBDA rest :
                      IF ~rest.ok THEN Fail
                      ELSE Parsed(<<a.val>> \o rest.val, rest.pos)))

\* PeerInfo.to_bytes / PeerInfo.from_bytes: key, address count, addresses
InfoToBytes(i) == KeyBytes(i.public_key) \o << Len(i.addresses) >> \o AddrsToBytes(i.addresses)
InfoFromBytes(b, pos) ==
    IF pos + KeyLen > Len(b) THEN Fail
    ELSE With(KeyFromString(SubSeq(b, pos, pos + KeyLen - 1)), LAMBDA k :
             IF IsNone(k) THEN Fail
             ELSE With(AddrsFromBytes(b, pos + KeyLen + 1, b[pos + KeyLen]), LAMBDA as :
                      IF ~as.ok THEN Fail
                      ELSE Parsed(PeerInfo(The(k), as.val), as.pos)))

\* MediatorCmd.encode
MediatorCmd_encode(issuer_info, issuer_addr, dest_pubkey) ==
    InfoToBytes(issuer_info) \o AddrToBytes(issuer_addr)
        \o U32Bytes(Len(KeyBytes(dest_pubkey))) \o KeyBytes(dest_pubkey)

\* AskSrudpCmd.encode
AskSrudpCmd_encode(issuer_info, issuer_addr) ==
    InfoToBytes(issuer_info) \o AddrToBytes(issuer_addr)

(***************************************************************************)
(* Requests.  A request is dispatched with the socket it arrived on and a  *)
(* body built from fields; form "short" drops the last byte of the         *)
(* encoding and form "extra" appends one byte to it.                       *)
(***************************************************************************)
I1 == PeerInfo(1, << FormalAddr(Host(4, 20), 40000) >>)
I3 == PeerInfo(3, <<>>)
A_pub == FormalAddr(Host(4, 20), 40000)
A_loop == FormalAddr(Host(4, 127), 1024)
A_v6 == FormalAddr(Host(6, 30), 40000)

Request(kind, sock, info, addr, key, form) ==
    [kind |-> kind, sock |-> sock, info |-> info, addr |-> addr, key |-> key, form |-> form]

\* sockets 1, 2 and 3 belong to the registered peers, socket 0 to none
AskRequests ==
    { Request("ask", 1, I1, A_pub, 0, "ok"), Request("ask", 1, I3, A_pub, 0, "ok"),
      Request("ask", 1, I3, A_loop, 0, "ok"), Request("ask", 1, I1, A_v6, 0, "ok"),
      Request("ask", 1, I3, A_pub, 0, "short"), Request("ask", 1, I3, A_pub, 0, "extra"),
      Request("ask", 0, I3, A_pub, 0, "ok") }

MedRequests ==
    { Request("med", 1, I3, A_pub, 2, "ok"), Request("med", 1, I3, A_pub, 3, "ok"),
      Request("med", 1, I1, A_loop, 1, "ok"), Request("med", 1, I3, A_pub, 2, "short"),
      Request("med", 1, I3, A_pub, 2, "extra"), Request("med", 1, I3, A_pub, 4, "ok"),
      Request("med", 3, I3, A_pub, 1, "ok"), Request("med", 0, I3, A_pub, 1, "ok") }

Shaped(bytes, form) ==
    CASE form = "short" -> SubSeq(bytes, 1, Len(bytes) - 1)
      [] form = "extra" -> bytes \o << 0 >>
      [] OTHER -> bytes

BodyOf(r) ==
    IF r.kind = "med" THEN Shaped(MediatorCmd_encode(r.info, r.addr, r.key), r.form)
    ELSE Shaped(AskSrudpCmd_encode(r.info, r.addr), r.form)

\* what a forwarded REQUEST_ASK_SRUDP may answer: a connect-request response, or other bytes
ThrowResponses ==
    { InfoToBytes(PeerInfo(2, <<>>)) \o AddrToBytes(FormalAddr(Host(4, 12), 40000)), << 7, 7 >> }

\* the fixed failure payloads b"mediator_thread() failed" and b"ask_srudp_thread() failed"
MediatorFailed == << -1 >>
AskSrudpFailed == << -2 >>

(***************************************************************************)
(* State                                                                   *)
(***************************************************************************)
VARIABLES
    my_info,    \* p2p.my_info: this node's identity, fixed when the node is set up
    codec,      \* a caller of the static encode and decode methods: its values and position
    peers,      \* p2p.peers: sequence of Peer records [public_key, socks]
    pool,       \* p2p.pool: the sockets registered with add_sock
    flags,      \* the sockets whose SockControl.VALIDATED flag is set
    closed,     \* the sockets on which close() was called
    th,         \* per thread: the running handler's position and locals
    runs,       \* handler executions dispatched so far
    input,      \* per thread: the request its handler was dispatched with
    responses,  \* per thread: the calls of res_fnc, in order
    throws,     \* per thread: the calls of p2p.throw_command, in order
    replies,    \* per thread: what those calls returned, in order
    submits,    \* per thread: the connect tasks given to executor.submit, in order
    admits,     \* per thread: the changes the handler made to p2p.peers, in order
    ev          \* per thread: the handler's steps past the decode, in order

\* the state of the handlers, and what no handler writes
handlers == << peers, pool, flags, closed, th, runs, input, responses, throws, replies, submits,
              admits, ev >>
outside == << my_info, codec >>
vars == << outside, handlers >>

Idle ==
    [kind |-> "none", pc |-> "idle", run |-> 0, sock |-> 0, body |-> <<>>,
     issuer_info |-> NoneV, issuer_addr |-> NoneV, dest_pubkey |-> NoneV,
     dest_peer |-> NoneV, dest_addr |-> NoneV, new_sock |-> NoneV, fut |-> "none",
     issuer_peer |-> NoneV, exc |-> "none", response |-> NoneV]

\* the handler returned: its locals are gone
Returned(l) == [Idle EXCEPT !.kind = l.kind, !.run = l.run, !.pc = "done"]

NoRequest == Request("none", 0, I3, A_pub, 0, "ok")

\* the registered peers' sockets; a handler's new socket follows them
InitSocks == {1, 2, 3}
NewSockId(run) == Cardinality(InitSocks) + run

\* no call of the static methods under way
NoCodec == [at |-> "none"]

\* the node set up with one of the identities infos
NodeInit(infos) ==
    /\ my_info \in infos
    /\ peers = << [public_key |-> 1, socks |-> << 1 >>], [public_key |-> 4, socks |-> << 3 >>],
                  [public_key |-> 2, socks |-> << 2 >>] >>
    /\ pool = InitSocks
    /\ flags = {1, 2}
    /\ closed = {}
    /\ th = [t \in Threads |-> Idle]
    /\ runs = 0
    /\ input = [t \in Threads |-> NoRequest]
    /\ responses = [t \in Threads |-> <<>>]
    /\ throws = [t \in Threads |-> <<>>]
    /\ replies = [t \in Threads |-> <<>>]
    /\ submits = [t \in Threads |-> <<>>]
    /\ admits = [t \in Threads |-> <<>>]
    /\ ev = [t \in Threads |-> <<>>]

Init == NodeInit(MyInfos) /\ codec = NoCodec

(***************************************************************************)
(* Peer2Peer and Peer operations used by the handlers                      *)
(***************************************************************************)
InSeq(x, s) == \E i \in 1..Len(s) : s[i] = x

\* the first index of s satisfying P, as an optional
FirstIndex(s, P(_)) ==
    IF \E i \in 1..Len(s) : P(s[i])
    THEN Some(CHOOSE i \in 1..Len(s) : P(s[i]) /\ \A j \in 1..(i - 1) : ~P(s[j]))
    ELSE NoneV

\* Peer2Peer.get_peer_by_sock: the peer holding the socket (as its index in p2p.peers)
get_peer_by_sock(sock) ==
    LET holds(p) == InSeq(sock, p.socks) IN FirstIndex(peers, holds)

\* Peer2Peer.get_peer_by_pubkey
get_peer_by_pubkey(key) ==
    LET has(p) == p.public_key = key IN FirstIndex(peers, has)

\* Peer.get_validated_key: the peer's key once one of its sockets is validated
get_validated_key(p) ==
    IF \E i \in 1..Len(p.socks) : p.socks[i] \in flags THEN Some(p.public_key) ELSE NoneV

\* Peer(info): a new record, holding no socket
Peer(info) == [public_key |-> info.public_key, socks |-> <<>>]

\* res_fnc(status, payload)
res_fnc(t, status, payload) ==
    responses' = [responses EXCEPT ![t] = Append(@, [status |-> status, payload |-> payload])]

Log(t, e) == ev' = [ev EXCEPT ![t] = Append(@, e)]

\* raise: control passes to the handler's except clauses
Raise(t, e) == th' = [th EXCEPT ![t].pc = IF th[t].kind = "med" THEN "m_except" ELSE "a_except",
                                 ![t].exc = e]

(***************************************************************************)
(* Dispatch: the command framework starts a handler on a free thread       *)
(***************************************************************************)
DispatchOf(t, requests) ==
    /\ th[t].pc \in {"idle", "done"}
    /\ runs < MaxRuns
    /\ \E r \in requests :
        /\ input' = [input EXCEPT ![t] = r]
        /\ th' = [th EXCEPT ![t] = [Idle EXCEPT !.kind = r.kind, !.run = runs + 1,
                                                 !.sock = r.sock, !.body = BodyOf(r),
                                                 !.pc = IF r.kind = "med" THEN "m_resolve"
                                                        ELSE "a_resolve"]]
    /\ runs' = runs + 1
    /\ responses' = [responses EXCEPT ![t] = <<>>]
    /\ throws' = [throws EXCEPT ![t] = <<>>]
    /\ replies' = [replies EXCEPT ![t] = <<>>]
    /\ submits' = [submits EXCEPT ![t] = <<>>]
    /\ admits' = [admits EXCEPT ![t] = <<>>]
    /\ ev' = [ev EXCEPT ![t] = <<>>]
    /\ UNCHANGED << outside, peers, pool, flags, closed >>

Dispatch(t) == DispatchOf(t, AskRequests \cup MedRequests)

\* one request for each path through the two handlers, for the progress properties
PathRequests ==
    { Request("med", 1, I3, A_pub, 2, "ok"), Request("med", 1, I3, A_pub, 3, "ok"),
      Request("med", 1, I3, A_pub, 2, "short"), Request("med", 1, I3, A_pub, 2, "extra"),
      Request("med", 3, I3, A_pub, 1, "ok"), Request("med", 0, I3, A_pub, 1, "ok") } \cup
    { Request("ask", 1, I3, A_pub, 0, "ok"), Request("ask", 1, I3, A_loop, 0, "ok"),
      Request("ask", 1, I1, A_v6, 0, "ok"), Request("ask", 1, I3, A_pub, 0, "short"),
      Request("ask", 0, I3, A_pub, 0, "ok") }

DispatchPath(t) == DispatchOf(t, PathRequests)

(***************************************************************************)
(* AskSrudpCmd.thread                                                      *)
(***************************************************************************)
\* the statements of the try block in program order, two swapped variants first
AskOrderMeasureFirst ==
    << "a_resolve", "a_decode", "a_addr", "a_submit", "a_ack", "a_wait",
       "a_wrap", "a_measure", "a_validate", "a_check", "a_admit" >>
AskOrderAckLast ==
    << "a_resolve", "a_decode", "a_addr", "a_submit", "a_wait", "a_ack",
       "a_wrap", "a_validate", "a_measure", "a_check", "a_admit" >>
AskOrder ==
    << "a_resolve", "a_decode", "a_addr", "a_submit", "a_ack", "a_wait",
       "a_wrap", "a_validate", "a_measure", "a_check", "a_admit" >>

AskAfter(pc) ==
    LET i == CHOOSE j \in 1..Len(AskOrder) : AskOrder[j] = pc
    IN  IF i < Len(AskOrder) THEN AskOrder[i + 1] ELSE "done"

Goto(t, pc) == th' = [th EXCEPT ![t].pc = pc]

\* lines 117-118: the socket the request arrived on must belong to a known peer
AskResolve(t) ==
    /\ th[t].pc = "a_resolve"
    /\ IF IsNone(get_peer_by_sock(th[t].sock))
       THEN Raise(t, "AssertionError")
       ELSE Goto(t, AskAfter("a_resolve"))
    /\ UNCHANGED << outside, peers, pool, flags, closed, runs, input, responses, throws, replies,
                    submits,
                    admits, ev >>

\* the error a value type's from_bytes raises on a malformed buffer
DecodeErrors == {"AssertionError", "Exception"}

\* lines 121-123: two from_bytes calls on the body; no check of what follows them
AskSrudpBody(b) ==
    With(InfoFromBytes(b, 1), LAMBDA info :
        IF ~info.ok THEN Fail
        ELSE With(AddrFromBytes(b, info.pos), LAMBDA addr :
                 IF ~addr.ok THEN Fail
                 ELSE Parsed([issuer_info |-> info.val, issuer_addr |-> addr.val], addr.pos)))

AskDecode(t) ==
    /\ th[t].pc = "a_decode"
    /\ \E req \in { AskSrudpBody(th[t].body) } :
           IF req.ok
           THEN th' = [th EXCEPT ![t].pc = AskAfter("a_decode"), ![t].body = <<>>,
                                 ![t].issuer_info = Some(req.val.issuer_info),
                                 ![t].issuer_addr = Some(req.val.issuer_addr)]
           ELSE \E e \in DecodeErrors : Raise(t, e)
    /\ UNCHANGED << outside, peers, pool, flags, closed, runs, input, responses, throws, replies,
                    submits,
                    admits, ev >>

\* lines 126-127 and 132-133: the first own address of the issuer's IP version; first a
\* variant that takes the first own address whatever its version, and one that takes the
\* last own address of the issuer's version
MatchingAddressAny(issuer_addr) == Some(1)
MatchingAddressLast(issuer_addr) ==
    LET n == Len(my_info.addresses)
        same(a) == a.host.version = issuer_addr.host.version
        mirrored == FirstIndex([i \in 1..n |-> my_info.addresses[n + 1 - i]], same)
    IN  IF IsNone(mirrored) THEN NoneV ELSE Some(n + 1 - The(mirrored))
MatchingAddress(issuer_addr) ==
    LET same(a) == a.host.version = issuer_addr.host.version
    IN  FirstIndex(my_info.addresses, same)

\* lines 128-131: the ports dest_addr may get: a random one for a loopback issuer, else
\* the issuer's; first a variant that draws a random port for every issuer
DestPortsRandom(issuer_addr) == RandPorts
DestPorts(issuer_addr) ==
    IF is_loopback(issuer_addr.host) THEN RandPorts ELSE {issuer_addr.port}

AskFindAddr(t) ==
    /\ th[t].pc = "a_addr"
    /\ LET issuer_addr == The(th[t].issuer_addr)
           found == MatchingAddress(issuer_addr)
       IN  IF IsNone(found)
           THEN Raise(t, "AssertionError")
           ELSE LET address == my_info.addresses[The(found)]
                IN  \E port \in DestPorts(issuer_addr) :
                        th' = [th EXCEPT ![t].pc = AskAfter("a_addr"),
                                         ![t].dest_addr = Some(FormalAddr(address.host, port))]
    /\ UNCHANGED << outside, peers, pool, flags, closed, runs, input, responses, throws, replies,
                    submits,
                    admits, ev >>

\* line 137: the address family of the new transport socket, a variant that is always
\* IPv4 first
FamilyAlwaysInet(issuer_addr) == "AF_INET"
Family(issuer_addr) == IF issuer_addr.host.version = 4 THEN "AF_INET" ELSE "AF_INET6"

\* lines 138-142: the source port given to connect, none when the transport is to pick
\* it; first a variant that never gives one
LocalPortNever(issuer_addr, dest_addr) == NoneV
LocalPort(issuer_addr, dest_addr) ==
    IF is_loopback(issuer_addr.host) THEN Some(dest_addr.port) ELSE NoneV

\* lines 137-142: a new transport socket, and its connect handed to the worker pool
AskSubmit(t) ==
    /\ th[t].pc = "a_submit"
    /\ LET issuer_addr == The(th[t].issuer_addr)
           new_sock == NewSockId(th[t].run)
           family == Family(issuer_addr)
           local_port == LocalPort(issuer_addr, The(th[t].dest_addr))
       IN  /\ th' = [th EXCEPT ![t].pc = AskAfter("a_submit"), ![t].new_sock = Some(new_sock),
                               ![t].fut = "pending"]
           /\ submits' = [submits EXCEPT ![t] =
                  Append(@, [sock |-> new_sock, family |-> family, addr |-> issuer_addr,
                             local_port |-> local_port])]
    /\ Log(t, "submit")
    /\ UNCHANGED << outside, peers, pool, flags, closed, runs, input, responses, throws, replies,
                    admits >>

\* the worker pool runs new_sock.connect: it returns or raises, at any time after the
\* submit; the handler sees its end only up to the end of its wait on fut
ConnectDone(t) ==
    /\ th[t].pc \in {"a_ack", "a_wait"}
    /\ th[t].fut = "pending"
    /\ \E r \in {"ok", "fault"} : th' = [th EXCEPT ![t].fut = r]
    /\ UNCHANGED << outside, peers, pool, flags, closed, runs, input, responses, throws, replies,
                    submits,
                    admits, ev >>

\* lines 145-148: the success response, my_info and the chosen address
AskAck(t) ==
    /\ th[t].pc = "a_ack"
    /\ res_fnc(t, "SUCCESS", InfoToBytes(my_info) \o AddrToBytes(The(th[t].dest_addr)))
    /\ th' = [th EXCEPT ![t].pc = AskAfter("a_ack"), ![t].dest_addr = NoneV]
    /\ Log(t, "ack")
    /\ UNCHANGED << outside, peers, pool, flags, closed, runs, input, throws, replies, submits,
                    admits >>

\* fut.result(20.0): the task's result, the error it raised, or a timeout error
\* ("proceed", or the name of the raised error), a variant that ignores the timeout first
FutResultNoTimeout(fut) ==
    CASE fut = "ok" -> "proceed"
      [] fut = "fault" -> "ConnectionError"
      [] OTHER -> "proceed"
FutResult(fut) ==
    CASE fut = "ok" -> "proceed"
      [] fut = "fault" -> "ConnectionError"
      [] OTHER -> "Exception"

\* line 151
AskWaitConnect(t) ==
    /\ th[t].pc = "a_wait"
    /\ IF FutResult(th[t].fut) = "proceed"
       THEN Goto(t, AskAfter("a_wait"))
       ELSE Raise(t, FutResult(th[t].fut))
    /\ Log(t, CASE th[t].fut = "ok" -> "await_ok"
                 [] th[t].fut = "fault" -> "await_fault"
                 [] OTHER -> "await_timeout")
    /\ UNCHANGED << outside, peers, pool, flags, closed, runs, input, responses, throws, replies,
                    submits,
                    admits >>

\* lines 155-158: the transport socket wrapped as a Sock and registered with the pool
AskWrap(t) ==
    /\ th[t].pc = "a_wrap"
    /\ pool' = pool \cup {The(th[t].new_sock)}
    /\ Goto(t, AskAfter("a_wrap"))
    /\ Log(t, "wrap")
    /\ UNCHANGED << outside, peers, flags, closed, runs, input, responses, throws, replies, submits,
                    admits >>

\* what a bounded wait on a Sock operation may do: return, or raise on a fault or a timeout
WaitErrors == {"ConnectionError", "Exception"}

\* line 161: validate_the_other(True).wait(20.0); the validation sets VALIDATED or not
AskValidate(t) ==
    /\ th[t].pc = "a_validate"
    /\ \/ /\ flags' = flags \cup {The(th[t].new_sock)}
          /\ Goto(t, AskAfter("a_validate"))
       \/ /\ UNCHANGED flags
          /\ Goto(t, AskAfter("a_validate"))
       \/ /\ UNCHANGED flags
          /\ \E e \in WaitErrors : Raise(t, e)
    /\ Log(t, "validate")
    /\ UNCHANGED << outside, peers, pool, closed, runs, input, responses, throws, replies,
                    submits, admits >>

\* line 162: measure_delay_time(True).wait(20.0)
AskMeasure(t) ==
    /\ th[t].pc = "a_measure"
    /\ \/ Goto(t, AskAfter("a_measure"))
       \/ \E e \in WaitErrors : Raise(t, e)
    /\ Log(t, "measure")
    /\ UNCHANGED << outside, peers, pool, flags, closed, runs, input, responses, throws, replies,
                    submits,
                    admits >>

\* line 168: issuer_sock.flags & SockControl.VALIDATED, a variant without the test first
FlagTestSkipped(sock) == TRUE
FlagTest(sock) == sock \in flags

\* lines 168-169 and 174-179: the flag test, then the peer lookup or the close
AskCheck(t) ==
    /\ th[t].pc = "a_check"
    /\ IF FlagTest(The(th[t].new_sock))
       THEN /\ th' = [th EXCEPT ![t].pc = AskAfter("a_check"),
                                ![t].issuer_peer =
                                    get_peer_by_pubkey(The(th[t].issuer_info).public_key)]
            /\ Log(t, "lookup")
            /\ UNCHANGED closed
       ELSE /\ closed' = closed \cup {The(th[t].new_sock)}
            /\ th' = [th EXCEPT ![t] = Returned(th[t])]
            /\ Log(t, "close")
    /\ UNCHANGED << outside, peers, pool, flags, runs, input, responses, throws, replies,
                    submits, admits >>

\* lines 170-173 and 179: a new Peer for the issuer, or the socket appended to the found one
AskAdmit(t) ==
    /\ th[t].pc = "a_admit"
    /\ LET new_sock == The(th[t].new_sock)
           change(how) == [how |-> how, sock |-> new_sock, validated |-> new_sock \in flags]
       IN  IF IsNone(th[t].issuer_peer)
           THEN /\ peers' = Append(peers, Peer(The(th[t].issuer_info)))
                /\ admits' = [admits EXCEPT ![t] = Append(@, change("new_peer"))]
           ELSE /\ peers' = [peers EXCEPT ![The(th[t].issuer_peer)].socks = Append(@, new_sock)]
                /\ admits' = [admits EXCEPT ![t] = Append(@, change("append_sock"))]
    /\ th' = [th EXCEPT ![t] = Returned(th[t])]
    /\ Log(t, "admit")
    /\ UNCHANGED << outside, pool, flags, closed, runs, input, responses, throws, replies,
                    submits >>

\* lines 181-189: each except clause logs, then the failure response is sent
AskExcept(t) ==
    /\ th[t].pc = "a_except"
    /\ th[t].exc \in {"AssertionError", "ConnectionError", "Exception"}
    /\ res_fnc(t, "FAILED", AskSrudpFailed)
    /\ th' = [th EXCEPT ![t] = Returned(th[t])]
    /\ UNCHANGED << outside, peers, pool, flags, closed, runs, input, throws, replies, submits,
                    admits, ev >>

AskStep(t) ==
    \/ AskResolve(t) \/ AskDecode(t) \/ AskFindAddr(t) \/ AskSubmit(t) \/ AskAck(t)
    \/ AskWaitConnect(t) \/ AskWrap(t) \/ AskValidate(t) \/ AskMeasure(t) \/ AskCheck(t)
    \/ AskAdmit(t) \/ AskExcept(t)

(***************************************************************************)
(* MediatorCmd.thread                                                      *)
(***************************************************************************)
\* lines 48-51: the requesting peer and its validated key, a variant without the two
\* asserts first
MedResolveUnchecked(t) ==
    /\ th[t].pc = "m_resolve"
    /\ Goto(t, "m_decode")
    /\ UNCHANGED << outside, peers, pool, flags, closed, runs, input, responses, throws, replies,
                    submits, admits, ev >>
MedResolve(t) ==
    /\ th[t].pc = "m_resolve"
    /\ LET req_peer == get_peer_by_sock(th[t].sock)
       IN  IF IsNone(req_peer) THEN Raise(t, "AssertionError")
           ELSE IF IsNone(get_validated_key(peers[The(req_peer)]))
                THEN Raise(t, "AssertionError")
                ELSE Goto(t, "m_decode")
    /\ UNCHANGED << outside, peers, pool, flags, closed, runs, input, responses, throws, replies,
                    submits,
                    admits, ev >>

\* lines 54-59: identity, address, 4-byte length, key bytes, and nothing after them
MediatorBody(b) ==
    With(AskSrudpBody(b), LAMBDA head :
        IF ~head.ok THEN Fail
        ELSE With(IoRead(b, head.pos, 4), LAMBDA len :
             With(IntFromBytes(len.bytes), LAMBDA length :
             With(IoRead(b, len.pos, length), LAMBDA key :
             With(KeyFromString(key.bytes), LAMBDA dest_pubkey :
                 IF IsNone(dest_pubkey) \/ key.pos # Len(b) + 1 THEN Fail
                 ELSE Parsed([issuer_info |-> head.val.issuer_info,
                              issuer_addr |-> head.val.issuer_addr,
                              dest_pubkey |-> The(dest_pubkey)], key.pos))))))

MedDecode(t) ==
    /\ th[t].pc = "m_decode"
    /\ \E req \in { MediatorBody(th[t].body) } :
           IF req.ok
           THEN th' = [th EXCEPT ![t].pc = "m_find", ![t].body = <<>>,
                                 ![t].issuer_info = Some(req.val.issuer_info),
                                 ![t].issuer_addr = Some(req.val.issuer_addr),
                                 ![t].dest_pubkey = Some(req.val.dest_pubkey)]
           ELSE \E e \in DecodeErrors : Raise(t, e)
    /\ UNCHANGED << outside, peers, pool, flags, closed, runs, input, responses, throws, replies,
                    submits,
                    admits, ev >>

\* lines 63-64: the loop's test of one peer; first a variant that takes any validated
\* peer, and one that compares the peer's key whether validated or not
IsDestinationAnyValidated(p, dest_pubkey) == ~IsNone(get_validated_key(p))
IsDestinationUnvalidated(p, dest_pubkey) == p.public_key = dest_pubkey
IsDestination(p, dest_pubkey) ==
    LET public_key == get_validated_key(p)
    IN  ~IsNone(public_key) /\ The(public_key) = dest_pubkey

\* lines 62-67: the first peer whose validated key is the requested one
MedFind(t) ==
    /\ th[t].pc = "m_find"
    /\ LET is_dest(p) == IsDestination(p, The(th[t].dest_pubkey))
           dest_peer == FirstIndex(peers, is_dest)
       IN  IF IsNone(dest_peer) THEN Raise(t, "AssertionError")
           ELSE th' = [th EXCEPT ![t].pc = "m_throw", ![t].dest_peer = dest_peer]
    /\ UNCHANGED << outside, peers, pool, flags, closed, runs, input, responses, throws, replies,
                    submits,
                    admits, ev >>

\* lines 70-71: the connect request is encoded and sent to the destination peer
MedThrow(t) ==
    /\ th[t].pc = "m_throw"
    /\ throws' = [throws EXCEPT ![t] =
           Append(@, [peer |-> The(th[t].dest_peer), cmd |-> "REQUEST_ASK_SRUDP",
                      body |-> AskSrudpCmd_encode(The(th[t].issuer_info),
                                                  The(th[t].issuer_addr))])]
    /\ Goto(t, "m_await")
    /\ UNCHANGED << outside, peers, pool, flags, closed, runs, input, responses, replies, submits,
                    admits, ev >>

\* line 71: p2p.throw_command returns the destination's response
ThrowReturn(t) ==
    /\ th[t].pc = "m_await"
    /\ \E r \in ThrowResponses :
        /\ th' = [th EXCEPT ![t].pc = "m_respond", ![t].response = Some(r)]
        /\ replies' = [replies EXCEPT ![t] = Append(@, r)]
    /\ UNCHANGED << outside, peers, pool, flags, closed, runs, input, responses, throws, submits,
                    admits, ev >>

\* line 71: p2p.throw_command raises
ThrowRaise(t) ==
    /\ th[t].pc = "m_await"
    /\ \E e \in WaitErrors : Raise(t, e)
    /\ UNCHANGED << outside, peers, pool, flags, closed, runs, input, responses, throws, replies,
                    submits,
                    admits, ev >>

\* the payload handed to res_fnc for a response, a variant that drops its last byte first
RelayedTruncated(response) == SubSeq(response, 1, Len(response) - 1)
Relayed(response) == response

\* lines 74-77: the response is passed on as the success response
MedRespond(t) ==
    /\ th[t].pc = "m_respond"
    /\ res_fnc(t, "SUCCESS", Relayed(The(th[t].response)))
    /\ th' = [th EXCEPT ![t] = Returned(th[t])]
    /\ UNCHANGED << outside, peers, pool, flags, closed, runs, input, throws, replies, submits,
                    admits, ev >>

\* lines 79-84: the errors the except clauses catch, a variant without the last clause first
MedCaughtNoCatchAll == {"ConnectionError", "AssertionError"}
MedCaught == {"ConnectionError", "AssertionError", "Exception"}

\* lines 79-87: a caught error is logged, then the failure response is sent;
\* an error no clause catches ends the handler without a response
MedExcept(t) ==
    /\ th[t].pc = "m_except"
    /\ IF th[t].exc \in MedCaught
       THEN res_fnc(t, "FAILED", MediatorFailed)
       ELSE UNCHANGED responses
    /\ th' = [th EXCEPT ![t] = [Returned(th[t]) EXCEPT !.exc =
                  IF th[t].exc \in MedCaught THEN "none" ELSE th[t].exc]]
    /\ UNCHANGED << outside, peers, pool, flags, closed, runs, input, throws, replies, submits,
                    admits, ev >>

MedStep(t) ==
    \/ MedResolve(t) \/ MedDecode(t) \/ MedFind(t) \/ MedThrow(t)
    \/ MedRespond(t) \/ MedExcept(t)

(***************************************************************************)
(* The static decode methods, and a caller that encodes values, may append *)
(* a byte to the buffer, and decodes it with the same command's decode     *)
(***************************************************************************)
\* lines 107-111: identity, address, and nothing after them
AskSrudpCmd_decode(b) ==
    With(AskSrudpBody(b), LAMBDA r :
        IF ~r.ok THEN Fail
        ELSE IF Len(b) # r.pos - 1 THEN Fail
        ELSE Parsed(<< r.val.issuer_info, r.val.issuer_addr >>, r.pos))

\* lines 38-42: identity, address, and nothing after them
MediatorCmd_decode(b) ==
    With(AskSrudpBody(b), LAMBDA r :
        IF ~r.ok THEN Fail
        ELSE IF Len(b) # r.pos - 1 THEN Fail
        ELSE Parsed(<< r.val.issuer_info, r.val.issuer_addr >>, r.pos))

\* the values the caller encodes
CodecInfos == {I1, I3, PeerInfo(2, << A_pub, A_v6 >>)}
CodecAddrs == {A_pub, A_loop, A_v6}
TrailingBytes == {0, 255}

CodecStart(info, addr, key) ==
    [at |-> "start", info |-> info, addr |-> addr, key |-> key, cmd |-> "none",
     buf |-> <<>>, extra |-> FALSE, out |-> Fail]

CodecInit ==
    /\ NodeInit({MyInfoV4})
    /\ codec \in { CodecStart(i, a, k) : i \in CodecInfos, a \in CodecAddrs, k \in Keys }

AskEncodeCall ==
    /\ codec.at = "start"
    /\ codec' = [codec EXCEPT !.at = "encoded", !.cmd = "ask",
                               !.buf = AskSrudpCmd_encode(codec.info, codec.addr)]
    /\ UNCHANGED << my_info, handlers >>

MedEncodeCall ==
    /\ codec.at = "start"
    /\ codec' = [codec EXCEPT !.at = "encoded", !.cmd = "med",
                               !.buf = MediatorCmd_encode(codec.info, codec.addr, codec.key)]
    /\ UNCHANGED << my_info, handlers >>

AppendByte ==
    /\ codec.at = "encoded"
    /\ ~codec.extra
    /\ \E x \in TrailingBytes : codec' = [codec EXCEPT !.buf = Append(@, x), !.extra = TRUE]
    /\ UNCHANGED << my_info, handlers >>

AskDecodeCall ==
    /\ codec.at = "encoded"
    /\ codec.cmd = "ask"
    /\ codec' = [codec EXCEPT !.at = "decoded", !.out = AskSrudpCmd_decode(codec.buf)]
    /\ UNCHANGED << my_info, handlers >>

MedDecodeCall ==
    /\ codec.at = "encoded"
    /\ codec.cmd = "med"
    /\ codec' = [codec EXCEPT !.at = "decoded", !.out = MediatorCmd_decode(codec.buf)]
    /\ UNCHANGED << my_info, handlers >>

(***************************************************************************)
(* Specifications                                                          *)
(***************************************************************************)
CodecNext ==
    \/ AskEncodeCall
    \/ MedEncodeCall
    \/ AppendByte
    \/ AskDecodeCall
    \/ MedDecodeCall

CodecSpec == CodecInit /\ [][CodecNext]_vars

Next ==
    \E t \in Threads :
        \/ Dispatch(t)
        \/ AskStep(t)
        \/ ConnectDone(t)
        \/ MedStep(t)
        \/ ThrowReturn(t)
        \/ ThrowRaise(t)

Spec == Init /\ [][Next]_vars

\* A running handler thread is scheduled again and again; the forwarded command
\* returns or raises.  Nothing forces a new request to arrive or the connect task to end.
Running(t) == AskStep(t) \/ MedStep(t) \/ ThrowReturn(t) \/ ThrowRaise(t)

FairNext ==
    \E t \in Threads :
        \/ DispatchPath(t)
        \/ AskStep(t)
        \/ ConnectDone(t)
        \/ MedStep(t)
        \/ ThrowReturn(t)
        \/ ThrowRaise(t)

\* the progress properties are checked for the node advertising IPv4 addresses only
FairInit == NodeInit({MyInfoV4}) /\ codec = NoCodec

FairSpec == FairInit /\ [][FairNext]_vars /\ \A t \in Threads : WF_vars(Running(t))

(***************************************************************************)
(* Properties                                                              *)
(***************************************************************************)
IsAsk(t) == th[t].kind = "ask"
IsMed(t) == th[t].kind = "med"
Done(t) == th[t].pc = "done"
Logged(t, e) == InSeq(e, ev[t])

\* the socket the handler's execution created, and the key its request names as issuer
SockOf(t) == NewSockId(th[t].run)
IssuerKey(t) == input[t].info.public_key
InPeer(sock, p) == InSeq(sock, p.socks)

\* C1: every execution of AskSrudpCmd.thread calls res_fnc exactly once: never twice
\* while it runs, and once when it has ended; no failure response follows the success ack.
C1_AskRespondsExactlyOnce ==
    \A t \in Threads :
        IsAsk(t) => /\ Len(responses[t]) <= 1
                    /\ Done(t) => Len(responses[t]) = 1

\* C2: a running MediatorCmd.thread whose forwarded command returns or raises ends,
\* with res_fnc called exactly once and no error left uncaught.
C2_MediatorAnswersOnce ==
    \A t \in Threads :
        (IsMed(t) /\ ~Done(t))
            ~> (IsMed(t) /\ Done(t) /\ Len(responses[t]) = 1 /\ th[t].exc = "none")

\* a MediatorCmd.thread has ended after its forwarded command raised, and has answered
C2_Witness ==
    \E t \in Threads :
        /\ IsMed(t) /\ Done(t) /\ Len(throws[t]) = 1 /\ replies[t] = <<>>
        /\ responses[t] = << [status |-> "FAILED", payload |-> MediatorFailed] >>

\* C3: when AskSrudpCmd.thread has ended after a successful connect and the new socket's
\* VALIDATED flag is set, p2p.peers holds a Peer with the issuer's key whose socket list
\* contains the new socket.
C3_ValidatedSocketAdmitted ==
    \A t \in Threads :
        (IsAsk(t) /\ Done(t) /\ Logged(t, "wrap") /\ SockOf(t) \in flags)
            => \E i \in 1..Len(peers) :
                   peers[i].public_key = IssuerKey(t) /\ InPeer(SockOf(t), peers[i])

\* C4: when AskSrudpCmd.thread has ended after a successful connect with the new socket
\* in the pool and its VALIDATED flag not set, the socket is closed and the handler has
\* neither created a Peer nor appended the socket to one.
C4_UnvalidatedSocketClosed ==
    \A t \in Threads :
        (IsAsk(t) /\ Done(t) /\ Logged(t, "wrap") /\ SockOf(t) \in pool /\ SockOf(t) \notin flags)
            => /\ SockOf(t) \in closed
               /\ admits[t] = <<>>
               /\ \A i \in 1..Len(peers) : ~InPeer(SockOf(t), peers[i])

\* C5: every socket a handler appended to a Peer had VALIDATED set when it was appended,
\* a handler creates a Peer only when its socket has VALIDATED set, and so every socket
\* a handler created that is in a Peer's socket list has VALIDATED set.
C5_OnlyValidatedAdmitted ==
    /\ \A t \in Threads : \A i \in 1..Len(admits[t]) : admits[t][i].validated
    /\ \A i \in 1..Len(peers) : \A j \in 1..Len(peers[i].socks) :
           peers[i].socks[j] \notin InitSocks => peers[i].socks[j] \in flags
    /\ Len(peers) > Cardinality(InitSocks) => \E s \in flags : s \notin InitSocks

\* one handler has appended its socket to a Peer and another has created a Peer
C5_Witness ==
    \E t, u \in Threads :
        /\ Len(admits[t]) = 1 /\ admits[t][1].how = "append_sock"
        /\ Len(admits[u]) = 1 /\ admits[u][1].how = "new_peer"

\* C6: p2p.peers never holds two Peer records with the same public key.
C6_NoDuplicatePeer ==
    \A i, j \in 1..Len(peers) : i # j => peers[i].public_key # peers[j].public_key

Failure(payload) == [status |-> "FAILED", payload |-> payload]
\* the address a success response of AskSrudpCmd.thread announces
AckAddr(response) == AskSrudpBody(response.payload).val.issuer_addr
Success(payload) == [status |-> "SUCCESS", payload |-> payload]

\* some peer in p2p.peers has the validated key k
DestKnown(k) == \E i \in 1..Len(peers) : get_validated_key(peers[i]) = Some(k)
\* the socket belongs to a peer in p2p.peers that has a validated key
OriginValidated(sock) ==
    \E i \in 1..Len(peers) : InPeer(sock, peers[i]) /\ ~IsNone(get_validated_key(peers[i]))
\* thread t takes a step
Steps(t) == th'[t] # th[t]

\* the calls of throw_command a MediatorCmd.thread made: at most one, with
\* REQUEST_ASK_SRUDP, to a peer whose validated key is the requested one, with a body
\* that decodes to the request's issuer_info and issuer_addr
C7_ThrowsToDestination(t) ==
    /\ Len(throws[t]) <= 1
    /\ \A i \in 1..Len(throws[t]) :
        /\ throws[t][i].cmd = "REQUEST_ASK_SRUDP"
        /\ get_validated_key(peers[throws[t][i].peer]) = Some(input[t].key)
        /\ AskSrudpBody(throws[t][i].body) =
               Parsed([issuer_info |-> input[t].info, issuer_addr |-> input[t].addr],
                      Len(throws[t][i].body) + 1)

\* a well-formed request from a validated peer's socket that names a known validated key
\* passes each check and is forwarded by one throw_command
C7_EligibleIsForwarded(t) ==
    /\ (th[t].pc = "m_resolve" /\ Steps(t) /\ OriginValidated(input[t].sock))
           => th'[t].pc = "m_decode"
    /\ (th[t].pc = "m_decode" /\ Steps(t) /\ input[t].form = "ok") => th'[t].pc = "m_find"
    /\ (th[t].pc = "m_find" /\ Steps(t) /\ DestKnown(input[t].key)) => th'[t].pc = "m_throw"
    /\ (th[t].pc = "m_throw" /\ Steps(t)) => (th'[t].pc = "m_await" /\ Len(throws'[t]) = 1)

\* C7: for a well-formed request from a validated peer naming a peer's validated key,
\* MediatorCmd.thread issues exactly one throw_command, with REQUEST_ASK_SRUDP, to a peer
\* whose validated key is the requested one, carrying the request's issuer_info and
\* issuer_addr, and the response that call returns is its success response, unmodified.
C7_MediatorForwardsAndRelays ==
    /\ [](\A t \in Threads : IsMed(t) =>
            /\ C7_ThrowsToDestination(t)
            /\ (Done(t) /\ replies[t] # <<>>) => responses[t] = << Success(replies[t][1]) >>)
    /\ [][\A t \in Threads : IsMed(t) => C7_EligibleIsForwarded(t)]_vars

\* a request naming peer 2's key has been forwarded to peer 2 and its response relayed
C7_Witness ==
    \E t \in Threads :
        /\ IsMed(t) /\ Done(t) /\ input[t].key = 2
        /\ Len(throws[t]) = 1 /\ peers[throws[t][1].peer].public_key = 2
        /\ Len(replies[t]) = 1 /\ responses[t] = << Success(replies[t][1]) >>

\* C8: for a request naming a key that is no peer's validated key, MediatorCmd.thread
\* issues no throw_command and responds with the fixed failure payload.
C8_UnknownDestinationFails ==
    [][\A t \in Threads : IsMed(t) =>
        /\ (th[t].pc = "m_find" /\ Steps(t) /\ ~DestKnown(input[t].key))
               => (th'[t].pc = "m_except" /\ throws'[t] = <<>>)
        /\ (th[t].pc = "m_except" /\ Steps(t))
               => /\ Done(t)'
                  /\ throws'[t] = throws[t]
                  /\ responses'[t] = Append(responses[t], Failure(MediatorFailed))]_vars

\* requests naming an unregistered key and the key of an unvalidated peer have been
\* answered with the failure payload, with no throw_command
C8_Witness ==
    \E t, u \in Threads :
        /\ IsMed(t) /\ Done(t) /\ input[t].key = 3 /\ input[t].sock = 1
        /\ throws[t] = <<>> /\ responses[t] = << Failure(MediatorFailed) >>
        /\ IsMed(u) /\ Done(u) /\ input[u].key = 4 /\ input[u].sock = 1
        /\ throws[u] = <<>> /\ responses[u] = << Failure(MediatorFailed) >>

Awaits == {"await_ok", "await_fault", "await_timeout"}

\* C9: in AskSrudpCmd.thread the success response is the ack step's, the ack comes after
\* the connect task is submitted and before the wait on its result, and a wait is
\* preceded by the ack.
C9_AckBetweenSubmitAndWait ==
    \A t \in Threads : IsAsk(t) =>
        /\ (\E i \in 1..Len(responses[t]) : responses[t][i].status = "SUCCESS")
               <=> Logged(t, "ack")
        /\ \A i \in 1..Len(ev[t]) :
            /\ ev[t][i] = "ack" => /\ \E j \in 1..(i - 1) : ev[t][j] = "submit"
                                   /\ \A j \in 1..(i - 1) : ev[t][j] \notin Awaits
                                   /\ Len(submits[t]) = 1
            /\ ev[t][i] \in Awaits => \E j \in 1..(i - 1) : ev[t][j] = "ack"

\* the ack has been sent and the connect task has not ended
C9_Witness ==
    \E t \in Threads :
        /\ IsAsk(t) /\ ev[t] = << "submit", "ack" >> /\ th[t].fut = "pending"
        /\ Len(responses[t]) = 1 /\ responses[t][1].status = "SUCCESS"

\* the wait on the connect task ended with a timeout or with the task's error
AwaitFailed(t) == IsAsk(t) /\ (Logged(t, "await_timeout") \/ Logged(t, "await_fault"))

\* one connect submitted, the socket not wrapped, not in the pool and in no Peer, no
\* validation or delay measurement started, no change made to p2p.peers
Abandoned(t) ==
    /\ Len(submits[t]) = 1
    /\ ~Logged(t, "wrap") /\ ~Logged(t, "validate") /\ ~Logged(t, "measure")
    /\ admits[t] = <<>>
    /\ SockOf(t) \notin pool
    /\ \A i \in 1..Len(peers) : ~InPeer(SockOf(t), peers[i])

\* C10: once the wait on the connect task has timed out or the task has raised, the
\* handler ends, and neither before nor at its end has it submitted a second connect,
\* wrapped or pooled the socket, started validation or delay measurement, or changed
\* p2p.peers or the pool.
C10_FailedConnectAbandoned ==
    /\ \A t \in Threads : [](AwaitFailed(t) => Abandoned(t))
    /\ \A t \in Threads : AwaitFailed(t) ~> (Done(t) /\ AwaitFailed(t) /\ Abandoned(t))
    /\ [][\A t \in Threads : (AwaitFailed(t) /\ Steps(t)) => (peers' = peers /\ pool' = pool)]_vars

\* a handler has ended after its wait on the connect task timed out
C10_Witness ==
    \E t \in Threads : Done(t) /\ Logged(t, "await_timeout") /\ Abandoned(t)

\* C11: for a non-loopback issuer_addr for which an own address of its version exists,
\* the chosen response address has issuer_addr's port, in the handler and in the ack,
\* and the one connect is submitted toward issuer_addr with no local source port.
C11_NonLoopbackReusesPort ==
    \A t \in Threads :
        (IsAsk(t) /\ ~is_loopback(input[t].addr.host)) =>
            /\ ~IsNone(th[t].dest_addr) => The(th[t].dest_addr).port = input[t].addr.port
            /\ \A i \in 1..Len(submits[t]) :
                   submits[t][i].addr = input[t].addr /\ IsNone(submits[t][i].local_port)
            /\ \A i \in 1..Len(responses[t]) :
                   responses[t][i].status = "SUCCESS"
                       => AckAddr(responses[t][i]).port = input[t].addr.port
            /\ (Logged(t, "submit") /\ ~IsNone(MatchingAddress(input[t].addr)))
                   => Len(submits[t]) = 1

\* the connect toward the issuer at port 40000 is submitted and port 40000 is announced
C11_Witness ==
    \E t \in Threads :
        /\ IsAsk(t) /\ input[t].addr = A_pub /\ Len(submits[t]) = 1
        /\ submits[t][1].addr = A_pub /\ IsNone(submits[t][1].local_port)
        /\ Len(responses[t]) = 1 /\ AckAddr(responses[t][1]).port = 40000

\* C12: for a loopback issuer_addr for which an own address of its version exists, the
\* chosen response port lies in [1024, 65535], the connect is submitted toward issuer_addr
\* with that port as its local source port, and the ack announces that port.
C12_LoopbackPortAnnounced ==
    \A t \in Threads :
        (IsAsk(t) /\ is_loopback(input[t].addr.host)) =>
            /\ ~IsNone(th[t].dest_addr)
                   => The(th[t].dest_addr).port \in RandPortLo..RandPortHi
            /\ \A i \in 1..Len(submits[t]) :
                /\ submits[t][i].addr = input[t].addr
                /\ ~IsNone(submits[t][i].local_port)
                /\ The(submits[t][i].local_port) \in RandPortLo..RandPortHi
                /\ ~IsNone(th[t].dest_addr)
                       => The(submits[t][i].local_port) = The(th[t].dest_addr).port
            /\ \A i \in 1..Len(responses[t]) :
                   responses[t][i].status = "SUCCESS"
                       => /\ Len(submits[t]) = 1
                          /\ Some(AckAddr(responses[t][i]).port) = submits[t][1].local_port

\* for a loopback issuer, port 65535 was chosen, given to connect and announced
C12_Witness ==
    \E t \in Threads :
        /\ IsAsk(t) /\ input[t].addr = A_loop /\ Len(submits[t]) = 1
        /\ submits[t][1].local_port = Some(RandPortHi)
        /\ Len(responses[t]) = 1 /\ AckAddr(responses[t][1]).port = RandPortHi

\* C13: for a loopback issuer_addr, the chosen response port differs from issuer_addr's
\* declared port, whatever the random choice yields.
C13_LoopbackPortDiffers ==
    \A t \in Threads :
        (IsAsk(t) /\ is_loopback(input[t].addr.host) /\ ~IsNone(th[t].dest_addr))
            => The(th[t].dest_addr).port # input[t].addr.port

\* C14: a request body with a byte after the declared layout is rejected by both
\* handlers: no throw_command, no connect task, and no response but the failure payload.
C14_TrailingBytesRejected ==
    \A t \in Threads :
        input[t].form = "extra" =>
            /\ throws[t] = <<>>
            /\ submits[t] = <<>>
            /\ \A i \in 1..Len(responses[t]) :
                   responses[t][i] = Failure(IF IsMed(t) THEN MediatorFailed ELSE AskSrudpFailed)
            /\ Done(t) => Len(responses[t]) = 1

\* C15: decoding what a command's encode produced gives back the encoded identity and
\* address, for AskSrudpCmd and for MediatorCmd, and decoding fails when one byte was
\* appended to the encoded buffer.
C15_CodecRoundTrip ==
    codec.at = "decoded" =>
        IF codec.extra THEN ~codec.out.ok
        ELSE codec.out.ok /\ codec.out.val = << codec.info, codec.addr >>

\* host h is that of the first of the node's own addresses, in order, of version v
FirstOwnHost(h, v) ==
    \E i \in 1..Len(my_info.addresses) :
        /\ my_info.addresses[i].host = h
        /\ h.version = v
        /\ \A j \in 1..(i - 1) : my_info.addresses[j].host.version # v

\* C16: whenever a connect task is submitted, the transport's family is IPv4 iff
\* issuer_addr's version is 4 and IPv6 otherwise, the chosen response address, in the
\* handler and in the ack, has issuer_addr's version, and its host is the first of the
\* node's own addresses of that version.
C16_FamilyAndFirstOwnAddress ==
    \A t \in Threads : IsAsk(t) =>
        \A i \in 1..Len(submits[t]) :
            LET issuer_addr == submits[t][i].addr
            IN  /\ issuer_addr = input[t].addr
                /\ submits[t][i].family = "AF_INET" <=> issuer_addr.host.version = 4
                /\ submits[t][i].family = "AF_INET6" <=> issuer_addr.host.version # 4
                /\ ~IsNone(th[t].dest_addr)
                       => FirstOwnHost(The(th[t].dest_addr).host, issuer_addr.host.version)
                /\ \A j \in 1..Len(responses[t]) :
                       responses[t][j].status = "SUCCESS"
                           => FirstOwnHost(AckAddr(responses[t][j]).host,
                                           issuer_addr.host.version)

\* the node advertises an IPv6 address between two IPv4 ones; one connect was submitted
\* over IPv4 and one over IPv6, each announced with the first own host of that version
C16_Witness ==
    \E t, u \in Threads :
        /\ IsAsk(t) /\ Len(submits[t]) = 1 /\ submits[t][1].family = "AF_INET"
        /\ Len(responses[t]) = 1 /\ AckAddr(responses[t][1]).host = Host(4, 10)
        /\ IsAsk(u) /\ Len(submits[u]) = 1 /\ submits[u][1].family = "AF_INET6"
        /\ Len(responses[u]) = 1 /\ AckAddr(responses[u][1]).host = Host(6, 40)

\* the socket the request arrived on belongs to no peer in p2p.peers
UnknownOrigin(t) == \A i \in 1..Len(peers) : ~InPeer(input[t].sock, peers[i])
\* the request's body decodes and none of the node's own addresses has issuer_addr's version
NoOwnAddress(t) ==
    /\ input[t].form # "short"
    /\ \A i \in 1..Len(my_info.addresses) :
           my_info.addresses[i].host.version # input[t].addr.host.version
PreconditionFails(t) == IsAsk(t) /\ (UnknownOrigin(t) \/ NoOwnAddress(t))

\* C17: when the originating socket belongs to no known peer, or no own address has
\* issuer_addr's version, AskSrudpCmd.thread responds with the fixed failure payload, once,
\* and changes nothing else: it submits no connect task, adds no socket to the pool, and
\* none of its steps changes p2p.peers, the pool, or a socket's flags or open state.
C17_PreconditionFailureHasNoEffect ==
    /\ [](\A t \in Threads : PreconditionFails(t) =>
            /\ submits[t] = <<>>
            /\ admits[t] = <<>>
            /\ ~Logged(t, "wrap")
            /\ SockOf(t) \notin pool
            /\ \A i \in 1..Len(responses[t]) : responses[t][i] = Failure(AskSrudpFailed)
            /\ Len(responses[t]) <= 1
            /\ Done(t) => Len(responses[t]) = 1)
    /\ [][\A t \in Threads : (PreconditionFails(t) /\ Steps(t))
            => (peers' = peers /\ pool' = pool /\ flags' = flags /\ closed' = closed)]_vars

\* a request from an unknown socket and a request with an IPv6 issuer_addr to a node with
\* IPv4 addresses only have both been answered with the failure payload
C17_Witness ==
    \E t, u \in Threads :
        /\ IsAsk(t) /\ Done(t) /\ UnknownOrigin(t) /\ ~NoOwnAddress(t)
        /\ responses[t] = << Failure(AskSrudpFailed) >>
        /\ IsAsk(u) /\ Done(u) /\ NoOwnAddress(u) /\ ~UnknownOrigin(u)
        /\ responses[u] = << Failure(AskSrudpFailed) >>

\* C18: when the originating socket of a mediation request belongs to no known peer, or
\* to a peer with no validated key, MediatorCmd.thread issues no throw_command and
\* responds with the fixed failure payload, once, whatever destination key is requested.
C18_UnresolvedOriginFails ==
    \A t \in Threads :
        (IsMed(t) /\ ~OriginValidated(input[t].sock)) =>
            /\ throws[t] = <<>>
            /\ replies[t] = <<>>
            /\ \A i \in 1..Len(responses[t]) : responses[t][i] = Failure(MediatorFailed)
            /\ Len(responses[t]) <= 1
            /\ Done(t) => Len(responses[t]) = 1

\* requests naming the validated key of a known peer, one from a socket of no peer and
\* one from the socket of a peer without a validated key, were answered with the failure
C18_Witness ==
    \E t, u \in Threads :
        /\ IsMed(t) /\ Done(t) /\ UnknownOrigin(t) /\ DestKnown(input[t].key)
        /\ throws[t] = <<>> /\ responses[t] = << Failure(MediatorFailed) >>
        /\ IsMed(u) /\ Done(u) /\ ~UnknownOrigin(u) /\ ~OriginValidated(input[u].sock)
        /\ DestKnown(input[u].key)
        /\ throws[u] = <<>> /\ responses[u] = << Failure(MediatorFailed) >>

LastEvent(t) == IF ev[t] = <<>> THEN "none" ELSE ev[t][Len(ev[t])]

\* the wait on identity validation raised, on a timeout or a fault, and the handler is in
\* its except clauses or has ended there
ValidateAborted(t) ==
    IsAsk(t) /\ LastEvent(t) = "validate" /\ th[t].pc \in {"a_except", "done"}
\* the wait on identity validation has just timed out
ValidateTimedOut(t) ==
    IsAsk(t) /\ LastEvent(t) = "validate" /\ th[t].pc = "a_except" /\ th[t].exc = "Exception"

\* no delay measurement started and no Peer created or modified by the handler
PostAckWorkSkipped(t) ==
    /\ ~Logged(t, "measure") /\ ~Logged(t, "lookup") /\ ~Logged(t, "admit")
    /\ admits[t] = <<>>
    /\ \A i \in 1..Len(peers) : ~InPeer(SockOf(t), peers[i])

\* C19: after a successful connect, delay measurement starts only when the wait on
\* identity validation has returned; when that wait times out, the handler ends without
\* starting delay measurement and without creating or modifying a Peer.
C19_ValidationTimeoutAborts ==
    /\ [](\A t \in Threads : IsAsk(t) =>
            /\ th[t].pc = "a_measure" => LastEvent(t) = "validate"
            /\ th[t].pc = "a_validate"
                   => (LastEvent(t) = "wrap" /\ ev[t][Len(ev[t]) - 1] = "await_ok")
            /\ \A i \in 1..Len(ev[t]) : ev[t][i] = "measure" => (i > 1 /\ ev[t][i - 1] = "validate")
            /\ ValidateAborted(t) => PostAckWorkSkipped(t))
    /\ \A t \in Threads :
           ValidateTimedOut(t) ~> (Done(t) /\ ValidateAborted(t) /\ PostAckWorkSkipped(t))
    /\ [][\A t \in Threads : (ValidateAborted(t) /\ Steps(t)) => peers' = peers]_vars

\* a handler has ended after its wait on identity validation raised
C19_Witness ==
    \E t \in Threads :
        /\ Done(t) /\ ValidateAborted(t) /\ PostAckWorkSkipped(t)
        /\ ev[t] = << "submit", "ack", "await_ok", "wrap", "validate" >>

====
